---- MODULE Spec2Model ----
\* Hook state engine of crates/functional (src/crates/functional/src/lib.rs):
\* the thread-local CURRENT_HOOK cell, the per-instance HookState frames,
\* use_hook and the built-in hooks, and the host's update/view calls.
EXTENDS Integers, Sequences, FiniteSets, TLC

\* ---------------------------------------------------------------- bounds
\* Hook calls one render makes at most.
MaxHooks == 2
\* Messages the host holds for one instance at most.
MaxQueue == 2
\* View calls in progress at most, where render functions may call view.
MaxDepth == 3

\* Component instances, and the values hook state takes (arithmetic is
\* modulo their number).
Inst == {"A", "B"}
Vals == {0, 1}
Modulus == Cardinality(Vals)

\* Option<T>: None is the empty sequence, Some(x) the one-element sequence.
None == <<>>
Some(x) == <<x>>
IsSome(o) == Len(o) = 1
Unwrap(o) == o[1]

VARIABLES
    CURRENT_HOOK,   \* thread_local RefCell<Option<HookState>>
    hook_state,     \* FunctionComponent.hook_state, per instance
    heap,           \* the Rc<RefCell<dyn Any>> slots, by identity (index)
    cells,          \* the Rc<RefCell<T>> cells of use_ref, by identity (index)
    queue,          \* messages sent through each instance's ComponentLink
    stack,          \* view calls in progress, innermost last: [inst, ord]
    panicked,       \* "" or the message of the panic that ended the program
    triggers,       \* setter and dispatch closures returned to the caller
    props,          \* FunctionComponent.props, per instance
    schedule,       \* the host's render bookkeeping per instance, see Init
    sites,          \* history: per instance and call ordinal, see NoSite
    last            \* history: what the most recent operation did, see NoOp

vars == <<CURRENT_HOOK, hook_state, heap, cells, queue, stack, panicked,
          triggers, props, schedule, sites, last>>

\* ------------------------------------------------------ the user's code
\* The reducers passed to use_reducer: Fn(Rc<State>, Action) -> State.
Reducers == {"add", "dbl"}
Reduce(r, s, a) ==
    IF r = "add" THEN (s + a) % Modulus ELSE (2 * s + a) % Modulus

\* The dependency values passed to the effect hooks, each boxed as <<v>>;
\* Unit is the () the lower arities pad with.
Unit == <<>>
DepVals == {0, 1}
NoDeps == <<Unit, Unit, Unit, Unit, Unit>>
OneDep(o1) == <<<<o1>>, Unit, Unit, Unit, Unit>>
TwoDeps(o1, o2) == <<<<o1>>, <<o2>>, Unit, Unit, Unit>>
ThreeDeps(o1, o2, o3) == <<<<o1>>, <<o2>>, <<o3>>, Unit, Unit>>
FourDeps(o1, o2, o3, o4) == <<<<o1>>, <<o2>>, <<o3>>, <<o4>>, Unit>>
Arity(o) == Cardinality({k \in 1..5 : o[k] # Unit})

\* TypeId of the InternalHookState a hook call expects.
UseStateState == <<"UseStateState", 0>>
UseReducerState == <<"UseReducerState", 0>>
UseRefState == <<"UseRefState", 0>>
UseEffectState(o) == <<"UseEffectState", Arity(o)>>

\* The panics of the code, by their messages.
PanicUnwrapNone == "called Option::unwrap() on a None value"
PanicNoHook == "No current hook. Hooks can only be called inside functional components"
PanicType == "Incompatible hook type. Hooks must always be called in the same order"

\* ------------------------------------------------------------ the frame
\* create giving every instance the link of the first.
create_shared_link(i) == [counter |-> 0, process_message |-> "A", hooks |-> <<>>]

\* FunctionComponent::create: the frame an instance starts with.
create(i) == [counter |-> 0, process_message |-> i, hooks |-> <<>>]

\* view without the reset of the counter of lines 60-65.
view_no_reset(i, cur, hs) ==
    IF ~IsSome(hs[i])
    THEN [panic |-> PanicUnwrapNone, cur |-> cur, hs |-> hs]
    ELSE [panic |-> "", cur |-> hs[i], hs |-> [hs EXCEPT ![i] = cur]]

\* view, lines 60-75: reset the counter of whatever frame the instance holds,
\* then swap it with the content of CURRENT_HOOK.
view(i, cur, hs) ==
    IF ~IsSome(hs[i])
    THEN [panic |-> PanicUnwrapNone, cur |-> cur, hs |-> hs]
    ELSE LET reset == Some([Unwrap(hs[i]) EXCEPT !.counter = 0])
         IN  [panic |-> "", cur |-> reset, hs |-> [hs EXCEPT ![i] = cur]]

\* view, lines 80-88: swap CURRENT_HOOK and the instance's hook_state back.
unload(i, cur, hs) == [cur |-> hs[i], hs |-> [hs EXCEPT ![i] = cur]]

\* --------------------------------------------------------------- use_hook
\* use_hook running the initializer before it looks for the current frame.
use_hook_init_first(cur, hp, type, initial) ==
    [panic |-> PanicNoHook, cur |-> cur, heap |-> Append(hp, initial),
     hook |-> 0, created |-> FALSE,
     trigger |-> [slot |-> 0, type |-> type, process_message |-> "",
                  op |-> "", reducer |-> ""]]

\* use_hook storing a new slot of the type asked for where it finds a slot of
\* another type.
use_hook_replace(cur, hp, type, initial) ==
    IF ~IsSome(cur)
    THEN [panic |-> PanicNoHook, cur |-> cur, heap |-> hp, hook |-> 0,
          created |-> FALSE,
          trigger |-> [slot |-> 0, type |-> type, process_message |-> "",
                       op |-> "", reducer |-> ""]]
    ELSE LET f == Unwrap(cur)
             hook_pos == f.counter
             fresh == hook_pos >= Len(f.hooks)
             hp1 == IF fresh THEN Append(hp, initial) ELSE hp
             hooks1 == IF fresh THEN Append(f.hooks, Len(hp1)) ELSE f.hooks
             hook == hooks1[hook_pos + 1]
             hp2 == IF hp1[hook].type = type THEN hp1
                    ELSE [hp1 EXCEPT ![hook] = initial]
             f1 == [f EXCEPT !.counter = hook_pos + 1, !.hooks = hooks1]
         IN  [panic |-> "", cur |-> Some(f1), heap |-> hp2, hook |-> hook,
              created |-> fresh,
              trigger |-> [slot |-> hook, type |-> type,
                           process_message |-> f.process_message,
                           op |-> "", reducer |-> ""]]

\* use_hook, lines 372-411: resolve the call position to a slot, create the
\* slot on first access, build the trigger, type-check the slot.
use_hook(cur, hp, type, initial) ==
    IF ~IsSome(cur)
    THEN [panic |-> PanicNoHook, cur |-> cur, heap |-> hp, hook |-> 0,
          created |-> FALSE,
          trigger |-> [slot |-> 0, type |-> type, process_message |-> "",
                       op |-> "", reducer |-> ""]]
    ELSE LET f == Unwrap(cur)
             hook_pos == f.counter
             fresh == hook_pos >= Len(f.hooks)
             hp1 == IF fresh THEN Append(hp, initial) ELSE hp
             hooks1 == IF fresh THEN Append(f.hooks, Len(hp1)) ELSE f.hooks
             hook == hooks1[hook_pos + 1]
             f1 == [f EXCEPT !.counter = hook_pos + 1, !.hooks = hooks1]
         IN  [panic |-> IF hp1[hook].type = type THEN "" ELSE PanicType,
              cur |-> Some(f1), heap |-> hp1, hook |-> hook, created |-> fresh,
              trigger |-> [slot |-> hook, type |-> type,
                           process_message |-> f.process_message,
                           op |-> "", reducer |-> ""]]

\* A trigger called with its argument, lines 396-406: the boxed mutation that
\* is handed to process_message.
Message(t, arg) ==
    [slot |-> t.slot, type |-> t.type, op |-> t.op, reducer |-> t.reducer,
     arg |-> arg]
Sent(t, arg) == [to |-> t.process_message, msg |-> Message(t, arg)]

\* ComponentLink::send_message, called at line 41: the host keeps the message
\* for a later update, in the order sent.
send_message(q, msg) == Append(q, msg)

\* The trigger closure applying the mutation at once instead of boxing it.
trigger_eager(t, arg, q, hp) ==
    [queue |-> q,
     heap |-> IF t.op = "set" THEN [hp EXCEPT ![t.slot].current = arg]
              ELSE [hp EXCEPT ![t.slot].current_state =
                       Reduce(t.reducer, @, arg)]]

\* The trigger closure run, lines 396-406: nothing but process_message is
\* called, from line 41 link.send_message; the slot is borrowed only when
\* the host runs the message.
trigger(t, arg, q, hp) ==
    [queue |-> [q EXCEPT ![t.process_message] =
                   send_message(@, Message(t, arg))],
     heap |-> hp]

\* What a hook call hands back: the use_hook outcome, the value returned to
\* the render function (ret, and val read through it), the closures that
\* escape to the caller, the messages sent, the callbacks run.
Outcome(r, hp, cl, ret, val, escaped, sent, events) ==
    [panic |-> r.panic, cur |-> r.cur, heap |-> hp, cells |-> cl,
     hook |-> r.hook, created |-> r.created, ret |-> ret, val |-> val,
     escaped |-> escaped, sent |-> sent, events |-> events]
Failed(r, cl) == Outcome(r, r.heap, cl, 0, 0, {}, <<>>, <<>>)

\* ------------------------------------------------------ the built-in hooks
\* use_state handing out its setter before the slot's type is checked.
use_state_early_trigger(cur, hp, cl, initial_state) ==
    LET r == use_hook(cur, hp, UseStateState,
                      [type |-> UseStateState, current |-> initial_state])
    IN  IF r.panic = PanicNoHook THEN Failed(r, cl)
        ELSE Outcome(r, r.heap, cl,
                     IF r.panic = "" THEN r.heap[r.hook].current ELSE 0, 0,
                     {[r.trigger EXCEPT !.op = "set"]}, <<>>, <<>>)

\* use_state, lines 158-183.
use_state(cur, hp, cl, initial_state) ==
    LET r == use_hook(cur, hp, UseStateState,
                      [type |-> UseStateState, current |-> initial_state])
    IN  IF r.panic # "" THEN Failed(r, cl)
        ELSE Outcome(r, r.heap, cl, r.heap[r.hook].current, 0,
                     {[r.trigger EXCEPT !.op = "set"]}, <<>>, <<>>)

\* The initializer functions passed to use_reducer_with_init.
InitFns == {"id", "succ"}
ApplyInit(init, seed) == IF init = "id" THEN seed ELSE (seed + 1) % Modulus

\* use_reducer_with_init applying init to the seed in every call.
use_reducer_with_init_again(cur, hp, cl, reducer, initial_state, init) ==
    LET r == use_hook(cur, hp, UseReducerState,
                      [type |-> UseReducerState,
                       current_state |-> ApplyInit(init, initial_state)])
        hp1 == [r.heap EXCEPT ![r.hook].current_state =
                   ApplyInit(init, initial_state)]
    IN  IF r.panic # "" THEN Failed(r, cl)
        ELSE Outcome(r, hp1, cl, hp1[r.hook].current_state, 0,
                     {[r.trigger EXCEPT !.op = "reduce", !.reducer = reducer]},
                     <<>>, <<>>)

\* use_reducer_with_init, lines 119-156.
use_reducer_with_init(cur, hp, cl, reducer, initial_state, init) ==
    LET r == use_hook(cur, hp, UseReducerState,
                      [type |-> UseReducerState,
                       current_state |-> ApplyInit(init, initial_state)])
    IN  IF r.panic # "" THEN Failed(r, cl)
        ELSE Outcome(r, r.heap, cl, r.heap[r.hook].current_state, 0,
                     {[r.trigger EXCEPT !.op = "reduce", !.reducer = reducer]},
                     <<>>, <<>>)

\* use_reducer, lines 109-117.
use_reducer(cur, hp, cl, reducer, initial_state) ==
    use_reducer_with_init(cur, hp, cl, reducer, initial_state, "id")

\* use_ref returning a copy of the cell instead of the cell.
use_ref_copy(cur, hp, cl, initial_value) ==
    LET r == use_hook(cur, hp, UseRefState,
                      [type |-> UseRefState, cell |-> Len(cl) + 1])
        cl1 == IF r.created THEN Append(cl, initial_value) ELSE cl
        cl2 == Append(cl1, cl1[r.heap[r.hook].cell])
    IN  IF r.panic # "" THEN Failed(r, cl1)
        ELSE Outcome(r, r.heap, cl2, Len(cl2), cl2[Len(cl2)], {}, <<>>, <<>>)

\* use_ref, lines 94-107: the slot holds the cell, the call returns it.
use_ref(cur, hp, cl, initial_value) ==
    LET r == use_hook(cur, hp, UseRefState,
                      [type |-> UseRefState, cell |-> Len(cl) + 1])
        cl1 == IF r.created THEN Append(cl, initial_value) ELSE cl
    IN  IF r.panic # "" THEN Failed(r, cl1)
        ELSE Outcome(r, r.heap, cl1, r.heap[r.hook].cell,
                     cl1[r.heap[r.hook].cell], {}, <<>>, <<>>)

\* use_effect5 without the update of the snapshots of lines 328-332.
use_effect5_stale(cur, hp, cl, o, d) ==
    LET r == use_hook(cur, hp, UseEffectState(o),
                      [type |-> UseEffectState(o), o |-> o,
                       destructor |-> None])
        state == r.heap[r.hook]
        changed == ~(\A k \in 1..5 : state.o[k] = o[k])
        bootstrap == ~changed /\ ~IsSome(state.destructor)
        events == IF changed
                  THEN (IF IsSome(state.destructor)
                        THEN <<[run |-> "destructor",
                                id |-> Unwrap(state.destructor)]>>
                        ELSE <<>>) \o <<[run |-> "callback", id |-> d]>>
                  ELSE IF bootstrap THEN <<[run |-> "callback", id |-> d]>>
                  ELSE <<>>
        state1 == IF changed \/ bootstrap
                  THEN [state EXCEPT !.destructor = Some(d)] ELSE state
    IN  IF r.panic # "" THEN Failed(r, cl)
        ELSE Outcome(r, [r.heap EXCEPT ![r.hook] = state1], cl, 0, 0, {},
                     IF changed \/ bootstrap
                     THEN <<Sent([r.trigger EXCEPT !.op = "noop"], 0)>>
                     ELSE <<>>,
                     events)

\* use_effect5 dropping the stored destructor instead of running it (lines
\* 318-320 left out).
use_effect5_drop(cur, hp, cl, o, d) ==
    LET r == use_hook(cur, hp, UseEffectState(o),
                      [type |-> UseEffectState(o), o |-> o,
                       destructor |-> None])
        state == r.heap[r.hook]
        changed == ~(\A k \in 1..5 : state.o[k] = o[k])
        bootstrap == ~changed /\ ~IsSome(state.destructor)
        state1 == IF changed THEN [state EXCEPT !.o = o, !.destructor = Some(d)]
                  ELSE IF bootstrap THEN [state EXCEPT !.destructor = Some(d)]
                  ELSE state
    IN  IF r.panic # "" THEN Failed(r, cl)
        ELSE Outcome(r, [r.heap EXCEPT ![r.hook] = state1], cl, 0, 0, {},
                     IF changed \/ bootstrap
                     THEN <<Sent([r.trigger EXCEPT !.op = "noop"], 0)>>
                     ELSE <<>>,
                     IF changed \/ bootstrap
                     THEN <<[run |-> "callback", id |-> d]>> ELSE <<>>)

\* use_effect5 whose returned closure calls hook_update whether or not the
\* callback ran (the test of line 345 left out).
use_effect5_resend(cur, hp, cl, o, d) ==
    LET r == use_hook(cur, hp, UseEffectState(o),
                      [type |-> UseEffectState(o), o |-> o,
                       destructor |-> None])
        state == r.heap[r.hook]
        changed == ~(\A k \in 1..5 : state.o[k] = o[k])
        bootstrap == ~changed /\ ~IsSome(state.destructor)
        events == IF changed
                  THEN (IF IsSome(state.destructor)
                        THEN <<[run |-> "destructor",
                                id |-> Unwrap(state.destructor)]>>
                        ELSE <<>>) \o <<[run |-> "callback", id |-> d]>>
                  ELSE IF bootstrap THEN <<[run |-> "callback", id |-> d]>>
                  ELSE <<>>
        state1 == IF changed THEN [state EXCEPT !.o = o, !.destructor = Some(d)]
                  ELSE IF bootstrap THEN [state EXCEPT !.destructor = Some(d)]
                  ELSE state
    IN  IF r.panic # "" THEN Failed(r, cl)
        ELSE Outcome(r, [r.heap EXCEPT ![r.hook] = state1], cl, 0, 0, {},
                     <<Sent([r.trigger EXCEPT !.op = "noop"], 0)>>, events)

\* use_effect5 without the branch of lines 334-343.
use_effect5_no_bootstrap(cur, hp, cl, o, d) ==
    LET r == use_hook(cur, hp, UseEffectState(o),
                      [type |-> UseEffectState(o), o |-> o,
                       destructor |-> None])
        state == r.heap[r.hook]
        changed == ~(\A k \in 1..5 : state.o[k] = o[k])
        events == IF changed
                  THEN (IF IsSome(state.destructor)
                        THEN <<[run |-> "destructor",
                                id |-> Unwrap(state.destructor)]>>
                        ELSE <<>>) \o <<[run |-> "callback", id |-> d]>>
                  ELSE <<>>
        state1 == IF changed THEN [state EXCEPT !.o = o, !.destructor = Some(d)]
                  ELSE state
    IN  IF r.panic # "" THEN Failed(r, cl)
        ELSE Outcome(r, [r.heap EXCEPT ![r.hook] = state1], cl, 0, 0, {},
                     IF changed
                     THEN <<Sent([r.trigger EXCEPT !.op = "noop"], 0)>>
                     ELSE <<>>,
                     events)

\* use_effect5 taking the branch of lines 334-343 whether or not a destructor
\* is stored.
use_effect5_refire(cur, hp, cl, o, d) ==
    LET r == use_hook(cur, hp, UseEffectState(o),
                      [type |-> UseEffectState(o), o |-> o,
                       destructor |-> None])
        state == r.heap[r.hook]
        changed == ~(\A k \in 1..5 : state.o[k] = o[k])
        events == IF changed
                  THEN (IF IsSome(state.destructor)
                        THEN <<[run |-> "destructor",
                                id |-> Unwrap(state.destructor)]>>
                        ELSE <<>>) \o <<[run |-> "callback", id |-> d]>>
                  ELSE <<[run |-> "callback", id |-> d]>>
        state1 == IF changed THEN [state EXCEPT !.o = o, !.destructor = Some(d)]
                  ELSE [state EXCEPT !.destructor = Some(d)]
    IN  IF r.panic # "" THEN Failed(r, cl)
        ELSE Outcome(r, [r.heap EXCEPT ![r.hook] = state1], cl, 0, 0, {},
                     <<Sent([r.trigger EXCEPT !.op = "noop"], 0)>>, events)

\* use_effect5, lines 275-359; d is the destructor the callback returns.
use_effect5(cur, hp, cl, o, d) ==
    LET r == use_hook(cur, hp, UseEffectState(o),
                      [type |-> UseEffectState(o), o |-> o,
                       destructor |-> None])
        state == r.heap[r.hook]
        changed == ~(\A k \in 1..5 : state.o[k] = o[k])
        bootstrap == ~changed /\ ~IsSome(state.destructor)
        should_update == changed \/ bootstrap
        events == IF changed
                  THEN (IF IsSome(state.destructor)
                        THEN <<[run |-> "destructor",
                                id |-> Unwrap(state.destructor)]>>
                        ELSE <<>>) \o <<[run |-> "callback", id |-> d]>>
                  ELSE IF bootstrap THEN <<[run |-> "callback", id |-> d]>>
                  ELSE <<>>
        state1 == IF changed THEN [state EXCEPT !.o = o, !.destructor = Some(d)]
                  ELSE IF bootstrap THEN [state EXCEPT !.destructor = Some(d)]
                  ELSE state
    IN  IF r.panic # "" THEN Failed(r, cl)
        ELSE Outcome(r, [r.heap EXCEPT ![r.hook] = state1], cl, 0, 0, {},
                     IF should_update
                     THEN <<Sent([r.trigger EXCEPT !.op = "noop"], 0)>>
                     ELSE <<>>,
                     events)

\* use_effect padding with a value that is new in every call.
use_effect_fresh_pad(cur, hp, cl, d) ==
    use_effect5(cur, hp, cl, <<Unit, Unit, Unit, Unit, <<d>>>>, d)

\* use_effect, lines 185-199, and use_effect1, lines 201-216.
use_effect(cur, hp, cl, d) == use_effect5(cur, hp, cl, NoDeps, d)
use_effect1(cur, hp, cl, o1, d) == use_effect5(cur, hp, cl, OneDep(o1), d)

\* use_effect2, lines 218-234, use_effect3, lines 236-253, and use_effect4,
\* lines 255-273.
use_effect2(cur, hp, cl, o1, o2, d) ==
    use_effect5(cur, hp, cl, TwoDeps(o1, o2), d)
use_effect3(cur, hp, cl, o1, o2, o3, d) ==
    use_effect5(cur, hp, cl, ThreeDeps(o1, o2, o3), d)
use_effect4(cur, hp, cl, o1, o2, o3, o4, d) ==
    use_effect5(cur, hp, cl, FourDeps(o1, o2, o3, o4), d)

\* ------------------------------------------------------------- the host
\* update whose set reports whether the value changed.
update_if_changed(msg, hp) ==
    IF hp[msg.slot].type # msg.type
    THEN [panic |-> PanicType, heap |-> hp, ret |-> FALSE]
    ELSE CASE msg.op = "set" ->
                [panic |-> "", ret |-> hp[msg.slot].current # msg.arg,
                 heap |-> [hp EXCEPT ![msg.slot].current = msg.arg]]
           [] msg.op = "reduce" ->
                [panic |-> "", ret |-> TRUE,
                 heap |-> [hp EXCEPT ![msg.slot].current_state =
                              Reduce(msg.reducer, @, msg.arg)]]
           [] OTHER -> [panic |-> "", ret |-> TRUE, heap |-> hp]

\* update whose reduce passes the action where the state belongs.
update_swapped(msg, hp) ==
    IF hp[msg.slot].type # msg.type
    THEN [panic |-> PanicType, heap |-> hp, ret |-> FALSE]
    ELSE CASE msg.op = "set" ->
                [panic |-> "", ret |-> TRUE,
                 heap |-> [hp EXCEPT ![msg.slot].current = msg.arg]]
           [] msg.op = "reduce" ->
                [panic |-> "", ret |-> TRUE,
                 heap |-> [hp EXCEPT ![msg.slot].current_state =
                              Reduce(msg.reducer, msg.arg, @)]]
           [] OTHER -> [panic |-> "", ret |-> TRUE, heap |-> hp]

\* change, lines 51-55: the new properties are swapped in, and the result is
\* the comparison of the old ones, now in the local, with the stored ones.
change(stored, new) == [props |-> new, ret |-> (stored = new)]

\* update applying the mutation to the first slot of its type instead of the
\* slot the trigger was built on.
update_first_slot(msg, hp) ==
    LET target == IF hp[1].type = msg.type THEN 1 ELSE msg.slot IN
    IF hp[msg.slot].type # msg.type
    THEN [panic |-> PanicType, heap |-> hp, ret |-> FALSE]
    ELSE CASE msg.op = "set" ->
                [panic |-> "", ret |-> TRUE,
                 heap |-> [hp EXCEPT ![target].current = msg.arg]]
           [] msg.op = "reduce" ->
                [panic |-> "", ret |-> TRUE,
                 heap |-> [hp EXCEPT ![target].current_state =
                              Reduce(msg.reducer, @, msg.arg)]]
           [] OTHER -> [panic |-> "", ret |-> TRUE, heap |-> hp]

\* update, lines 47-49, running the boxed mutation of lines 398-405 and the
\* closure it wraps (lines 172-175, 140-146, 346).
update(msg, hp) ==
    IF hp[msg.slot].type # msg.type
    THEN [panic |-> PanicType, heap |-> hp, ret |-> FALSE]
    ELSE CASE msg.op = "set" ->
                [panic |-> "", ret |-> TRUE,
                 heap |-> [hp EXCEPT ![msg.slot].current = msg.arg]]
           [] msg.op = "reduce" ->
                [panic |-> "", ret |-> TRUE,
                 heap |-> [hp EXCEPT ![msg.slot].current_state =
                              Reduce(msg.reducer, @, msg.arg)]]
           [] OTHER -> [panic |-> "", ret |-> TRUE, heap |-> hp]

\* ------------------------------------------------------------ histories
\* What is recorded of the call site (instance, call ordinal): the slot its
\* first call resolved to and what that call returned (ret0), the initializer
\* runs made there (inits), the dependencies its latest effect call passed
\* (deps), the destructor returned there and not yet run (cleanup), the state
\* folded over the mutations in the order they were sent (expected), the
\* value of the latest committed set or of the latest write through the cell
\* (committed).
NoSite == [slot |-> 0, inits |-> 0, ret0 |-> 0, deps |-> None,
           cleanup |-> None, expected |-> 0, committed |-> None]

\* The messages pending for slot s.
Pending(q, s) ==
    {<<i, k>> \in Inst \X (1..MaxQueue + 1) :
        k <= Len(q[i]) /\ q[i][k].slot = s}

\* The host's bookkeeping of an instance: "new" (created, first render due),
\* "mounted" (first render begun, none requested since), "dirty" (update
\* returned true, render due), "clean" (rendered again, none requested since).
ScheduleStates == {"new", "mounted", "dirty", "clean"}

\* What is recorded of the latest operation: the site it acted on as it was
\* before (before), the slot resolved, the value returned (ret) and read
\* through it (val), update's result (flag), whether the initializer ran
\* (created), the messages sent (sent; of an update, the commits made in a
\* row on the slot), the callbacks run (events), the dependencies passed
\* (arg; of an update, the kind of mutation).
NoOp == [op |-> "none", inst |-> "", ord |-> 0, slot |-> 0, ret |-> 0,
         val |-> 0, flag |-> FALSE, created |-> FALSE, sent |-> 0,
         events |-> <<>>, arg |-> <<>>, before |-> NoSite]

Init ==
    /\ CURRENT_HOOK = None
    /\ hook_state = [i \in Inst |-> Some(create(i))]
    /\ heap = <<>>
    /\ cells = <<>>
    /\ queue = [i \in Inst |-> <<>>]
    /\ stack = <<>>
    /\ panicked = ""
    /\ triggers = {}
    /\ props = [i \in Inst |-> 0]
    /\ schedule = [i \in Inst |-> "new"]
    /\ sites = [i \in Inst |-> <<>>]
    /\ last = NoOp

Top == stack[Len(stack)]
Rendering == IF stack = <<>> THEN "" ELSE Top.inst
Ord == IF stack = <<>> THEN 0 ELSE Top.ord

\* The destructor left to run after the callbacks of one hook call.
RECURSIVE Outstanding(_, _)
Outstanding(c, events) ==
    IF events = <<>> THEN c
    ELSE Outstanding(IF events[1].run = "callback" THEN Some(events[1].id)
                     ELSE IF c = Some(events[1].id) THEN None ELSE c,
                     Tail(events))

\* The sites of slot s, each changed by field.
SetExpected(s, t, arg) ==
    [i \in Inst |-> [k \in 1..Len(sites[i]) |->
        IF sites[i][k].slot # s THEN sites[i][k]
        ELSE [sites[i][k] EXCEPT
                 !.expected = CASE t.op = "set" -> arg
                                [] t.op = "reduce" -> Reduce(t.reducer, @, arg)
                                [] OTHER -> @]]]
SetCommitted(s, msg) ==
    [i \in Inst |-> [k \in 1..Len(sites[i]) |->
        IF sites[i][k].slot # s \/ msg.op # "set" THEN sites[i][k]
        ELSE [sites[i][k] EXCEPT !.committed = Some(msg.arg)]]]
SetWritten(c, v) ==
    [i \in Inst |-> [k \in 1..Len(sites[i]) |->
        IF heap[sites[i][k].slot].type = UseRefState /\ sites[i][k].ret0 = c
        THEN [sites[i][k] EXCEPT !.committed = Some(v)]
        ELSE sites[i][k]]]

\* ------------------------------------------------------------- actions
\* The host renders instance i: view up to the call of T::run.
Enter(i) ==
    LET v == view(i, CURRENT_HOOK, hook_state) IN
    /\ panicked = ""
    /\ CURRENT_HOOK' = v.cur
    /\ hook_state' = v.hs
    /\ panicked' = v.panic
    /\ stack' = IF v.panic = "" THEN Append(stack, [inst |-> i, ord |-> 0])
                ELSE stack
    /\ last' = IF v.panic # "" THEN [NoOp EXCEPT !.op = "panic"]
                ELSE [NoOp EXCEPT !.op = "view", !.inst = i]
    /\ UNCHANGED <<heap, cells, queue, triggers, props, sites>>

View(i) == stack = <<>> /\ Enter(i) /\ UNCHANGED schedule

\* A render function calls view itself, on its own or another instance.
NestedView(i) ==
    stack # <<>> /\ Len(stack) < MaxDepth /\ Enter(i) /\ UNCHANGED schedule

\* T::run returns: view from line 79 on.
ViewEnd ==
    LET u == unload(Top.inst, CURRENT_HOOK, hook_state) IN
    /\ panicked = ""
    /\ stack # <<>>
    /\ CURRENT_HOOK' = u.cur
    /\ hook_state' = u.hs
    /\ stack' = SubSeq(stack, 1, Len(stack) - 1)
    /\ last' = [NoOp EXCEPT !.op = "view_end", !.inst = Top.inst]
    /\ UNCHANGED <<heap, cells, queue, panicked, triggers, props, schedule,
                   sites>>

\* The messages of a hook call, each sent through its process_message.
RECURSIVE SendAll(_, _)
SendAll(q, msgs) ==
    IF msgs = <<>> THEN q
    ELSE SendAll([q EXCEPT ![msgs[1].to] = send_message(@, msgs[1].msg)],
                 Tail(msgs))

\* The running code calls a hook; o is the call's outcome.
Call(op, arg, o) ==
    LET i == Rendering
        known == i # "" /\ Ord < Len(sites[i])
        before == IF known THEN sites[i][Ord + 1] ELSE NoSite
        after == [slot |-> IF known THEN before.slot ELSE o.hook,
                  inits |-> before.inits + (IF o.created THEN 1 ELSE 0),
                  ret0 |-> IF known THEN before.ret0 ELSE o.ret,
                  deps |-> IF op = "use_effect" THEN Some(arg) ELSE before.deps,
                  cleanup |-> Outstanding(before.cleanup, o.events),
                  expected |-> IF known THEN before.expected ELSE o.ret,
                  committed |-> before.committed]
    IN
    /\ panicked = ""
    /\ Ord < MaxHooks
    /\ \A k \in 1..Len(o.sent) : Len(queue[o.sent[k].to]) < MaxQueue
    /\ CURRENT_HOOK' = o.cur
    /\ heap' = o.heap
    /\ cells' = o.cells
    /\ panicked' = o.panic
    /\ triggers' = triggers \cup o.escaped
    /\ queue' = SendAll(queue, o.sent)
    /\ stack' = IF stack = <<>> THEN stack
                ELSE [stack EXCEPT ![Len(stack)].ord = @ + 1]
    /\ sites' = IF i = "" \/ o.panic # "" THEN sites
                ELSE [sites EXCEPT ![i] =
                         IF known THEN [@ EXCEPT ![Ord + 1] = after]
                         ELSE Append(@, after)]
    /\ last' = IF o.panic # "" THEN [NoOp EXCEPT !.op = "panic"]
                ELSE [NoOp EXCEPT !.op = op, !.inst = i, !.ord = Ord,
                                  !.slot = o.hook, !.ret = o.ret,
                                  !.val = o.val, !.created = o.created,
                                  !.sent = Len(o.sent), !.events = o.events,
                                  !.arg = arg, !.before = before]
    /\ UNCHANGED <<hook_state, props, schedule>>

UseState ==
    \E v \in Vals :
        Call("use_state", <<>>, use_state(CURRENT_HOOK, heap, cells, v))

UseReducer ==
    \E r \in Reducers, v \in Vals :
        Call("use_reducer", <<>>, use_reducer(CURRENT_HOOK, heap, cells, r, v))

UseReducerWithInit ==
    \E r \in Reducers, v \in Vals, f \in InitFns :
        Call("use_reducer", <<>>,
             use_reducer_with_init(CURRENT_HOOK, heap, cells, r, v, f))

UseRef ==
    \E v \in Vals : Call("use_ref", <<>>, use_ref(CURRENT_HOOK, heap, cells, v))

\* The destructor the effect callback returns next: one no slot holds.
Held(hp) ==
    {hp[s].destructor[1] :
        s \in {x \in 1..Len(hp) : /\ hp[x].type[1] = "UseEffectState"
                                  /\ IsSome(hp[x].destructor)}}
NewDestructor(hp) ==
    CHOOSE d \in 1..(Len(hp) + 1) :
        d \notin Held(hp) /\ \A e \in 1..(d - 1) : e \in Held(hp)

UseEffect ==
    Call("use_effect", NoDeps,
         use_effect(CURRENT_HOOK, heap, cells, NewDestructor(heap)))

UseEffect1 ==
    \E o1 \in DepVals :
        Call("use_effect", OneDep(o1),
             use_effect1(CURRENT_HOOK, heap, cells, o1, NewDestructor(heap)))

UseEffect2 ==
    \E o1, o2 \in DepVals :
        Call("use_effect", TwoDeps(o1, o2),
             use_effect2(CURRENT_HOOK, heap, cells, o1, o2,
                         NewDestructor(heap)))

\* The render functions calling use_effect3 vary its first and third
\* dependency, those calling use_effect4 its second and fourth.
UseEffect3 ==
    \E o1, o3 \in DepVals :
        Call("use_effect", ThreeDeps(o1, 0, o3),
             use_effect3(CURRENT_HOOK, heap, cells, o1, 0, o3,
                         NewDestructor(heap)))

UseEffect4 ==
    \E o2, o4 \in DepVals :
        Call("use_effect", FourDeps(0, o2, 1, o4),
             use_effect4(CURRENT_HOOK, heap, cells, 0, o2, 1, o4,
                         NewDestructor(heap)))

\* A setter or dispatch that escaped is called, in a render or between renders.
CallTrigger ==
    \E t \in triggers, arg \in Vals :
        /\ panicked = ""
        /\ Len(queue[t.process_message]) < MaxQueue
        /\ queue' = trigger(t, arg, queue, heap).queue
        /\ heap' = trigger(t, arg, queue, heap).heap
        /\ sites' = SetExpected(t.slot, t, arg)
        /\ last' = NoOp
        /\ UNCHANGED <<CURRENT_HOOK, hook_state, cells, stack, panicked,
                       triggers, props, schedule>>

\* The user's code writes through a cell use_ref returned.
RefWrite ==
    \E c \in 1..Len(cells), v \in Vals :
        /\ panicked = ""
        /\ cells' = [cells EXCEPT ![c] = v]
        /\ sites' = SetWritten(c, v)
        /\ last' = NoOp
        /\ UNCHANGED <<CURRENT_HOOK, hook_state, heap, queue, stack, panicked,
                       triggers, props, schedule>>

\* The commits the host has made in a row on slot s, this one included.
Run(s) ==
    IF last.op = "update" /\ last.slot = s
    THEN (IF last.sent < MaxQueue THEN last.sent + 1 ELSE last.sent)
    ELSE 1

\* The host calls update with the oldest message of instance i, between
\* renders.
Commit(i) ==
    /\ panicked = ""
    /\ stack = <<>>
    /\ queue[i] # <<>>
    /\ LET u == update(Head(queue[i]), heap) IN
        /\ heap' = u.heap
        /\ panicked' = u.panic
        /\ last' = IF u.panic # "" THEN [NoOp EXCEPT !.op = "panic"]
                    ELSE [NoOp EXCEPT !.op = "update", !.inst = i,
                                      !.slot = Head(queue[i]).slot,
                                      !.flag = u.ret,
                                      !.arg = <<Head(queue[i]).op>>,
                                      !.sent = Run(Head(queue[i]).slot)]
    /\ queue' = [queue EXCEPT ![i] = Tail(@)]
    /\ sites' = SetCommitted(Head(queue[i]).slot, Head(queue[i]))
    /\ UNCHANGED <<CURRENT_HOOK, hook_state, cells, stack, triggers, props>>

\* The host commits the oldest message of instance i, between renders.
HostUpdate(i) == Commit(i) /\ UNCHANGED schedule

\* The host passes new properties to instance i, between renders.
Change(i) ==
    \E new \in Vals :
        LET c == change(props[i], new) IN
        /\ panicked = ""
        /\ stack = <<>>
        /\ props' = [props EXCEPT ![i] = c.props]
        /\ last' = [NoOp EXCEPT !.op = "change", !.inst = i, !.flag = c.ret,
                                !.ret = props[i], !.val = new]
        /\ UNCHANGED <<CURRENT_HOOK, hook_state, heap, cells, queue, stack,
                       panicked, triggers, schedule, sites>>

Next ==
    \/ View("A")
    \/ ViewEnd
    \/ UseState
    \/ UseReducer
    \/ UseReducerWithInit
    \/ UseRef
    \/ UseEffect
    \/ UseEffect1
    \/ CallTrigger
    \/ RefWrite
    \/ HostUpdate("A")

Spec == Init /\ [][Next]_vars

\* Two instances whose render functions may call view.
NextNested ==
    \/ \E i \in Inst : View(i)
    \/ \E i \in Inst : NestedView(i)
    \/ ViewEnd
    \/ UseEffect

SpecNested == Init /\ [][NextNested]_vars

\* Two instances given new properties between their renders.
NextProps ==
    \/ \E i \in Inst : Change(i)
    \/ \E i \in Inst : View(i)
    \/ ViewEnd
    \/ UseRef

SpecProps == Init /\ [][NextProps]_vars

\* One instance whose render function calls the effect hooks of every arity
\* below five.
NextEffects ==
    \/ View("A")
    \/ ViewEnd
    \/ UseEffect
    \/ UseEffect1
    \/ UseEffect2
    \/ UseEffect3
    \/ UseEffect4
    \/ HostUpdate("A")

SpecEffects == Init /\ [][NextEffects]_vars

\* The host's loop: an instance is rendered after its creation and after an
\* update of it returned true.
ScheduledView(i) ==
    /\ stack = <<>>
    /\ schedule[i] \in {"new", "dirty"}
    /\ Enter(i)
    /\ schedule' = [schedule EXCEPT
                       ![i] = IF @ = "new" THEN "mounted" ELSE "clean"]

ScheduledUpdate(i) ==
    /\ Commit(i)
    /\ schedule' = [schedule EXCEPT ![i] = IF last'.flag THEN "dirty" ELSE @]

\* A render function that makes the same hook calls with the same
\* dependencies in every render: after the first render a call is made at a
\* site of its kind, with the dependencies passed there before, and the
\* render ends after the call at the last site.
Again == schedule[Rendering] = "clean"

SteadyEffect ==
    /\ stack # <<>>
    /\ UseEffect \/ UseEffect1
    /\ last'.op = "use_effect"
    /\ Again => (~last'.created /\ last'.before.deps = Some(last'.arg))

SteadyState ==
    /\ stack # <<>>
    /\ UseState
    /\ last'.op = "use_state"
    /\ Again => ~last'.created

RenderEnd ==
    /\ stack # <<>>
    /\ Again => Ord = Len(sites[Rendering])
    /\ ViewEnd

NextLoop ==
    \/ ScheduledView("A")
    \/ ScheduledUpdate("A")
    \/ SteadyEffect
    \/ SteadyState
    \/ RenderEnd

SpecLoop == Init /\ [][NextLoop]_vars /\ WF_vars(NextLoop)

\* Two instances rendered and committed by the host in any interleaving of
\* whole renders and commits.
\* Their render functions call use_state with the initial value 0 and the
\* setters are called with 1.
UseStateZero == UseState /\ (last'.created => last'.ret = 0)

SetOne ==
    /\ CallTrigger
    /\ \A i \in Inst : \A k \in 1..Len(queue'[i]) : queue'[i][k].arg = 1

NextTwo ==
    \/ \E i \in Inst : View(i)
    \/ ViewEnd
    \/ UseStateZero
    \/ SetOne
    \/ \E i \in Inst : HostUpdate(i)

SpecTwo == Init /\ [][NextTwo]_vars

\* ----------------------------------------------------------- properties
HookOps == {"use_state", "use_reducer", "use_ref", "use_effect"}

\* The frames there are, and the one created for instance i.
Frames ==
    {Unwrap(x) : x \in {y \in {CURRENT_HOOK} \cup {hook_state[j] : j \in Inst} :
                            IsSome(y)}}
FrameOf(i) == CHOOSE f \in Frames : f.process_message = i

\* C1: the k-th hook call of every render of an instance resolves to the slot
\* the first call ever made at position k created: each render starts with the
\* counter at 0, a hook call is given the slot at its ordinal, and the frame's
\* list stays the list of the slots in the order their sites were first
\* reached, none removed, moved or replaced.
C1_StableSlots ==
    /\ \A i \in Inst :
          /\ Len(FrameOf(i).hooks) = Len(sites[i])
          /\ \A k \in 1..Len(sites[i]) : FrameOf(i).hooks[k] = sites[i][k].slot
    /\ last.op = "view" => Unwrap(CURRENT_HOOK).counter = 0
    /\ last.op \in HookOps =>
          /\ last.ord < Len(sites[last.inst])
          /\ last.slot = sites[last.inst][last.ord + 1].slot
          /\ Unwrap(CURRENT_HOOK).counter = last.ord + 1

\* C1 witness: the second hook call of a later render was given the slot that
\* the second call of an earlier render created.
C1_Witness ==
    /\ last.op \in HookOps /\ ~last.created /\ last.ord = 1
    /\ last.slot = last.before.slot /\ last.slot = 2

\* C2: a committed set makes update return true, and the next use_state call
\* at the setter's position returns the value the setter was called with.
C2_SetterCommit ==
    /\ (last.op = "update" /\ last.arg = <<"set">>) => last.flag
    /\ (last.op = "use_state" /\ IsSome(last.before.committed)) =>
          last.ret = Unwrap(last.before.committed)

\* C2 witness: a render observes the committed value, which is not the one
\* the first render observed.
C2_Witness ==
    /\ last.op = "use_state"
    /\ last.before.committed = Some(last.ret)
    /\ last.ret # last.before.ret0

\* C3: once every dispatch sent to a reducer slot is committed, the slot's
\* state is the reducer folded over the actions in the order they were sent,
\* from the initial state.
C3_ReducerFold ==
    \A i \in Inst : \A k \in 1..Len(sites[i]) :
        LET st == sites[i][k] IN
        (heap[st.slot].type = UseReducerState /\ Pending(queue, st.slot) = {})
            => heap[st.slot].current_state = st.expected

\* C3 witness: two dispatches to one slot were committed in a row (so both
\* were sent before either was committed) and none is pending.
C3_Witness ==
    /\ last.op = "update" /\ last.arg = <<"reduce">> /\ last.sent = 2
    /\ Pending(queue, last.slot) = {}
    /\ \E i \in Inst : \E k \in 1..Len(sites[i]) :
          /\ sites[i][k].slot = last.slot
          /\ heap[last.slot].current_state = sites[i][k].expected

Fired == Cardinality({k \in 1..Len(last.events) :
                         last.events[k].run = "callback"})

\* C4: an effect call after the first at its site runs the callback exactly
\* when the dependencies differ from those the previous call there passed,
\* and no call runs it more than once.
C4_FiresOnChange ==
    last.op = "use_effect" =>
        /\ Fired <= 1
        /\ IsSome(last.before.deps) =>
              (Fired = 1 <=> last.arg # Unwrap(last.before.deps))

\* C4 witness: a later render passed other dependencies and the callback ran.
C4_Witness ==
    /\ last.op = "use_effect" /\ IsSome(last.before.deps)
    /\ last.arg # Unwrap(last.before.deps) /\ Fired = 1

\* C5: a destructor runs only in an effect call that runs the callback, before
\* the callback, and it is the one the previous firing at the site returned;
\* a firing with such a destructor outstanding runs it.
C5_CleanupOnce ==
    last.op = "use_effect" =>
        \/ last.events = <<>>
        \/ /\ Len(last.events) = 1
           /\ last.events[1].run = "callback"
           /\ last.before.cleanup = None
        \/ /\ Len(last.events) = 2
           /\ IsSome(last.before.cleanup)
           /\ last.events[1] =
                 [run |-> "destructor", id |-> Unwrap(last.before.cleanup)]
           /\ last.events[2].run = "callback"
           /\ last.events[2].id # last.events[1].id

\* C5 witness: a firing ran the destructor of the previous firing.
C5_Witness == last.op = "use_effect" /\ Len(last.events) = 2

\* C6: the initializer of a use_ref site runs once, every call there returns
\* the cell the first call returned, and the value read through it is the
\* value last written through it.
C6_RefIdentity ==
    last.op = "use_ref" =>
        /\ sites[last.inst][last.ord + 1].inits = 1
        /\ last.created <=> last.before = NoSite
        /\ last.before # NoSite => last.ret = last.before.ret0
        /\ IsSome(last.before.committed) =>
              last.val = Unwrap(last.before.committed)

\* C6 witness: a later render reads through the cell a value written through
\* it after the first render.
C6_Witness ==
    /\ last.op = "use_ref" /\ ~last.created
    /\ last.before.committed = Some(last.val)

\* C7: a setter or dispatch call appends one message to one queue and changes
\* neither a slot, a cell, a frame, the current-frame cell nor the renders in
\* progress.
C7_Deferred ==
    [][(last' = NoOp /\ CallTrigger) =>
          /\ UNCHANGED <<heap, cells, CURRENT_HOOK, hook_state, stack,
                         panicked>>
          /\ \E i \in Inst :
                /\ queue'[i] # queue[i]
                /\ Len(queue'[i]) = Len(queue[i]) + 1
                /\ SubSeq(queue'[i], 1, Len(queue[i])) = queue[i]
                /\ \A j \in Inst \ {i} : queue'[j] = queue[j]]_vars

\* C7 witness: during a render a set is pending whose value the slot does not
\* hold.
C7_Witness ==
    /\ stack # <<>>
    /\ \E k \in 1..Len(queue["A"]) :
          /\ queue["A"][k].op = "set"
          /\ heap[queue["A"][k].slot].current # queue["A"][k].arg

\* The hook calls, by the type of state they expect.
HookTypes == {UseStateState, UseReducerState, UseRefState,
              UseEffectState(NoDeps), UseEffectState(OneDep(0))}
CallOfType(T) ==
    CASE T = UseStateState -> UseState
      [] T = UseReducerState -> UseReducer \/ UseReducerWithInit
      [] T = UseRefState -> UseRef
      [] T = UseEffectState(NoDeps) -> UseEffect
      [] OTHER -> UseEffect1
HookCall == \E T \in HookTypes : CallOfType(T)

\* C9: a hook call with no frame bound panics and changes no slot, cell,
\* frame, queue or escaped closure.
C9_NoFrame ==
    [][(~IsSome(CURRENT_HOOK) /\ last'.op \in HookOps \cup {"panic"}
          /\ HookCall) =>
          /\ panicked' = PanicNoHook
          /\ UNCHANGED <<heap, cells, CURRENT_HOOK, hook_state, queue,
                         triggers>>]_vars

\* C9 witness: a hook call made after a render, with no frame bound, panicked.
C9_Witness == panicked = PanicNoHook /\ heap # <<>>

\* The slot at the current position exists and is not of type T.
Mismatch(T) ==
    /\ IsSome(CURRENT_HOOK)
    /\ LET f == Unwrap(CURRENT_HOOK) IN
          /\ f.counter < Len(f.hooks)
          /\ heap[f.hooks[f.counter + 1]].type # T

\* C10: a hook call that finds a slot of another type at its position panics;
\* no slot or cell changes, no closure escapes and no message is sent.
C10_TypeMismatch ==
    [][\A T \in HookTypes :
          (Mismatch(T) /\ last'.op \in HookOps \cup {"panic"}
              /\ CallOfType(T)) =>
              /\ panicked' = PanicType
              /\ UNCHANGED <<heap, cells, triggers, queue>>]_vars

\* C10 witness: a hook call in a render panicked on the type of its slot.
C10_Witness == panicked = PanicType /\ stack # <<>>

\* C8: a view entered while a render is in progress panics: it installs no
\* frame and starts no render.
C8_NestedViewAborts ==
    [][(stack # <<>> /\ last'.op \in {"view", "panic"}
          /\ \E i \in Inst : Enter(i)) =>
          /\ panicked' # ""
          /\ CURRENT_HOOK' = CURRENT_HOOK
          /\ stack' = stack]_vars

\* C11: change stores the new properties and returns true exactly when they
\* differ from the properties stored before.
C11_ChangeReportsDifference ==
    last.op = "change" =>
        /\ props[last.inst] = last.val
        /\ last.flag <=> (last.val # last.ret)

\* C12: a setter or dispatch targets the slot of the call position that
\* created it, whatever the counter is when it is called: the closures a hook
\* call returns carry the slot the call resolved to, a message sent carries
\* the slot of a returned closure of its instance, and its commit changes
\* that slot as the mutation says and no other slot.
C12_TriggerTargetsSlot ==
    [][/\ last'.op \in {"use_state", "use_reducer"} =>
             \A t \in triggers' \ triggers :
                 /\ t.slot = sites'[last'.inst][last'.ord + 1].slot
                 /\ t.process_message = last'.inst
       /\ (last' = NoOp /\ queue' # queue) =>
             \E t \in triggers :
                 LET q == queue'[t.process_message] IN
                 /\ Len(q) = Len(queue[t.process_message]) + 1
                 /\ q[Len(q)].slot = t.slot
                 /\ q[Len(q)].op = t.op
       /\ (last'.op = "update" /\ HostUpdate("A")) =>
             LET msg == Head(queue["A"]) IN
             /\ \A s \in (1..Len(heap)) \ {msg.slot} : heap'[s] = heap[s]
             /\ msg.op = "set" => heap'[msg.slot].current = msg.arg
             /\ msg.op = "reduce" =>
                   heap'[msg.slot].current_state =
                       Reduce(msg.reducer, heap[msg.slot].current_state,
                              msg.arg)]_vars

\* C12 witness: a set was committed to the second slot after a render that
\* made no hook call had left the counter at 0, and the first slot, of the
\* same type, holds another value.
C12_Witness ==
    /\ last.op = "update" /\ last.slot = 2 /\ last.arg = <<"set">>
    /\ FrameOf("A").counter = 0
    /\ heap[1].type = UseStateState
    /\ heap[1].current # heap[2].current

\* C13: an effect call sends one message, a no-op on its own slot, when its
\* callback ran and none when it did not; the commit of that message changes
\* no slot and no cell.
C13_EffectNoOp ==
    [][/\ last'.op = "use_effect" =>
             LET i == last'.inst
                 q == queue'[i] IN
             /\ Len(q) = Len(queue[i]) + Fired'
             /\ SubSeq(q, 1, Len(queue[i])) = queue[i]
             /\ Fired' = 1 => /\ q[Len(q)].op = "noop"
                              /\ q[Len(q)].slot = last'.slot
             /\ \A j \in Inst \ {i} : queue'[j] = queue[j]
       /\ (last'.op = "update" /\ last'.arg = <<"noop">>) =>
             /\ heap' = heap
             /\ cells' = cells]_vars

\* C13 witness: the message of an effect that fired was committed, and the
\* slot holds the cleanup of that firing.
C13_Witness ==
    /\ last.op = "update" /\ last.arg = <<"noop">> /\ last.flag
    /\ IsSome(heap[last.slot].destructor)

\* C14: the effect call that creates its slot runs the callback once and no
\* destructor, keeps the snapshots it was created with and stores the
\* cleanup; every effect slot holds a cleanup from then on, and a later call
\* with the dependencies of the snapshots runs nothing.
C14_FirstRenderFires ==
    /\ \A s \in 1..Len(heap) :
          heap[s].type[1] = "UseEffectState" => IsSome(heap[s].destructor)
    /\ (last.op = "use_effect" /\ last.created) =>
          /\ last.before = NoSite
          /\ Len(last.events) = 1
          /\ last.events[1].run = "callback"
          /\ heap[last.slot].destructor = Some(last.events[1].id)
          /\ heap[last.slot].o = last.arg
    /\ (last.op = "use_effect" /\ ~last.created
          /\ last.before.deps = Some(last.arg)) =>
          /\ last.events = <<>>
          /\ heap[last.slot].destructor = last.before.cleanup

\* C14 witness: a later render passed to a one-dependency effect the value of
\* the snapshot, and the callback did not run.
C14_Witness ==
    /\ last.op = "use_effect" /\ ~last.created /\ last.events = <<>>
    /\ Arity(last.arg) = 1 /\ last.before.deps = Some(last.arg)
    /\ IsSome(heap[last.slot].destructor)

\* C15: an effect call after the first at its site runs the callback exactly
\* when one of the dependencies supplied differs from the one the previous
\* call there supplied, the padding never counting; the effect with no
\* dependency runs it in the call that creates the slot and in no other.
C15_PaddingNeverFires ==
    last.op = "use_effect" =>
        /\ last.created => Fired = 1
        /\ ~last.created =>
              /\ Arity(Unwrap(last.before.deps)) = Arity(last.arg)
              /\ Fired = 1 <=>
                    \E k \in 1..Arity(last.arg) :
                        last.arg[k] # Unwrap(last.before.deps)[k]
              /\ last.arg = NoDeps => Fired = 0

\* C15 witness: a later render called an effect of two dependencies with the
\* values of the previous render, and one with no dependency, and neither
\* ran its callback.
C15_Witness ==
    /\ last.op = "use_effect" /\ ~last.created /\ Fired = 0
    /\ last.ord = 1 /\ last.arg = NoDeps
    /\ sites["A"][1].deps = Some(TwoDeps(1, 0))
    /\ heap[sites["A"][1].slot].o = TwoDeps(1, 0)
    /\ Len(queue["A"]) = 0

\* C16: use_reducer_with_init applies init to the seed in the call that
\* creates the slot, which returns the result, and in no other: a later call
\* at the site changes no slot and returns the state the slot holds, whatever
\* seed and init it is passed.
C16_InitOnce ==
    [][\A r \in Reducers, v \in Vals, f \in InitFns :
          (last'.op = "use_reducer"
              /\ Call("use_reducer", <<>>,
                      use_reducer_with_init(CURRENT_HOOK, heap, cells,
                                            r, v, f))) =>
              /\ sites'[last'.inst][last'.ord + 1].inits = 1
              /\ last'.created =>
                    /\ last'.ret = ApplyInit(f, v)
                    /\ heap'[last'.slot].current_state = ApplyInit(f, v)
              /\ ~last'.created =>
                    /\ heap' = heap
                    /\ last'.ret = heap[last'.slot].current_state]_vars

\* C16 witness: a later render's call returned the committed state, which is
\* not the state the creating call returned.
C16_Witness ==
    /\ last.op = "use_reducer" /\ ~last.created
    /\ last.ret # last.before.ret0
    /\ last.ret = last.before.expected

\* C17: while a render function runs, the current-frame cell holds the frame
\* of the instance being rendered; when a view returns, the instance holds
\* its own frame again, and after a top-level view the cell is empty.
C17_BindRoundTrip ==
    /\ stack # <<>> =>
          /\ IsSome(CURRENT_HOOK)
          /\ Unwrap(CURRENT_HOOK).process_message = Rendering
    /\ last.op = "view_end" =>
          /\ IsSome(hook_state[last.inst])
          /\ Unwrap(hook_state[last.inst]).process_message = last.inst
          /\ stack = <<>> => CURRENT_HOOK = None

\* C18: every closure returned to a caller and every message in a queue was
\* built for the type its slot has, so no commit fails on the type of the
\* slot: that panic is only ever raised by a hook call in a render.
C18_CommitTypeChecks ==
    /\ \A t \in triggers : heap[t.slot].type = t.type
    /\ \A i \in Inst : \A k \in 1..Len(queue[i]) :
          heap[queue[i][k].slot].type = queue[i][k].type
    /\ last.op = "update" => panicked = ""
    /\ panicked = PanicType => stack # <<>>

\* C18 witness: a dispatch was committed after a later render of one hook
\* call, while a set for a slot of the other type waits, and nothing panicked.
C18_Witness ==
    /\ last.op = "update" /\ last.arg = <<"reduce">> /\ panicked = ""
    /\ FrameOf("A").counter = 1
    /\ Len(queue["A"]) = 1
    /\ queue["A"][1].op = "set"
    /\ heap[queue["A"][1].slot].type = UseStateState

\* The host has nothing left to do.
Settled ==
    /\ stack = <<>>
    /\ queue["A"] = <<>>
    /\ schedule["A"] \in {"mounted", "clean"}

\* C19: with render functions passing the same dependencies in every render
\* and no setter or dispatch called, the host's loop of commits and renders
\* comes to rest: the queues are empty and no render is due, for ever.
C19_EffectsSettle == <>[]Settled

\* C19 witness: the loop is at rest after an effect of A fired, its message
\* was committed and A was rendered again.
C19_Witness ==
    /\ Settled
    /\ schedule["A"] = "clean"
    /\ \E k \in 1..Len(sites["A"]) :
          /\ heap[sites["A"][k].slot].type = UseEffectState(OneDep(0))
          /\ IsSome(heap[sites["A"][k].slot].destructor)

\* C20: a step of one instance (the start or end of its render, a hook call
\* in its render, a commit of one of its messages) leaves the frame, the
\* queue and the slots of every other instance as they were, and every
\* message in the queue of an instance is for a slot of that instance.
C20_Isolation ==
    [][/\ \A i \in Inst : \A k \in 1..Len(queue'[i]) :
             \E n \in 1..Len(sites'[i]) :
                 sites'[i][n].slot = queue'[i][k].slot
       /\ last'.inst \in Inst =>
             \A j \in Inst \ {last'.inst} :
                 /\ hook_state'[j] = hook_state[j]
                 /\ queue'[j] = queue[j]
                 /\ \A n \in 1..Len(sites[j]) :
                       heap'[sites[j][n].slot] = heap[sites[j][n].slot]]_vars

\* C20 witness: a set of B was committed while a message of A waits, both
\* instances having state slots, and the slot of A keeps its value.
C20_Witness ==
    /\ last.op = "update" /\ last.inst = "B" /\ last.arg = <<"set">>
    /\ queue["A"] # <<>>
    /\ sites["A"] # <<>>
    /\ heap[sites["A"][1].slot].type = UseStateState
    /\ heap[sites["A"][1].slot].current # heap[last.slot].current

====
